---- MODULE Spec2Model ----
(***************************************************************************)
(* The sales forecaster of the inventory backend                           *)
(* (inventory_app/forecast.py, SalesForecastService) together with the     *)
(* SalesForecast / Sale tables it reads and writes (inventory_app/models.py)*)
(* and the REST endpoints that touch the same tables                        *)
(* (inventory_app/views.py).                                                *)
(*                                                                          *)
(* Dates are day ordinals: day 0 is Monday 2024-01-01.  One run of the      *)
(* model takes place within one calendar day, Today.                        *)
(***************************************************************************)
EXTENDS Integers, Sequences, FiniteSets

\* ------------------------------------------------------------------ bounds

\* The calendar day on which the modelled requests run (2024-04-10).
Today == 100
\* Largest forecast_days a single-item request asks for.
MaxHorizon == 9
\* Largest number of Sale rows in the initial database.
MaxSales == 3
\* How often a client repeats a request with the same arguments.
MaxRepeats == 1
\* Largest primary key the forecast create endpoint hands out.
MaxPostId == 2
\* Lookback windows 0 .. MaxLookback are tried besides the default one.
MaxLookback == 8
\* Number of clients that may run a request at the same time.
NumWorkers == 2
\* Largest InventoryItem.quantity a run starts from.
MaxStock == 2
\* Largest quantity of a sale, purchase or stock transaction request.
MaxQty == 2
\* Largest number of sale, purchase and stock transaction requests in a run.
MaxRequests == 2

\* ------------------------------------------------------- program constants

\* prepare_historical_data(self, item_id, days_back=90)
DefaultDaysBack == 90
\* train_model: "len(df) < 14"
MinRawRows == 14
\* train_model: "len(df_clean) < 7"
MinCleanRows == 7
\* predict_sales: df.tail(7)
TailLen == 7
\* pandas NaN, the value shift() leaves where the lag reaches before row 0.
\* Quantities are never negative, so -1 is no quantity.
NaN == -1

\* InventoryItem rows (by id) and an id that names no row.
Items == {1, 2}
ItemIds == {1, 2, 3}

\* the Outlet rows (primary keys) the databases start with
Outlets == {1, 2}
\* InventoryItem.selling_price of each item.
SellingPrice(item) == IF item = 1 THEN 3 ELSE 5

\* ---------------------------------------------------------------- helpers

Max(a, b) == IF a >= b THEN a ELSE b

RECURSIVE SumFrom(_, _)
SumFrom(s, k) == IF k > Len(s) THEN 0 ELSE s[k] + SumFrom(s, k + 1)

\* the sum of a sequence of numbers
SumSeq(s) == SumFrom(s, 1)

\* the sequence s with its elements computed once (TLC keeps a function
\* expression unevaluated and would recompute an element at every use)
Seq1(s) == SubSeq(s, 1, Len(s))

\* s[-k:] of a Python / numpy sequence
LastK(s, k) == SubSeq(s, Max(1, Len(s) - k + 1), Len(s))

RECURSIVE SumOver(_, _)
\* Sum('<field>') of a set of Sale rows; col is "quantity" or "total_price"
SumOver(S, col) ==
    IF S = {} THEN 0
    ELSE LET s == CHOOSE x \in S : TRUE
         IN  (IF col = "quantity" THEN s.quantity ELSE s.total_price)
             + SumOver(S \ {s}, col)

\* --------------------------------------------------------------- calendar

IsLeap(y) == (y % 4 = 0 /\ y % 100 # 0) \/ y % 400 = 0
MonthLen(y, m) ==
    IF m = 2 THEN (IF IsLeap(y) THEN 29 ELSE 28)
    ELSE IF m \in {4, 6, 9, 11} THEN 30 ELSE 31

RECURSIVE YMD(_, _, _)
\* the (year, month, day) of the date that lies d days after y-m-01
YMD(y, m, d) ==
    IF d < MonthLen(y, m) THEN <<y, m, d + 1>>
    ELSE IF m = 12 THEN YMD(y + 1, 1, d - MonthLen(y, m))
    ELSE YMD(y, m + 1, d - MonthLen(y, m))

\* date.weekday(): Monday is 0
Weekday(d) == d % 7
\* date.day
DayOfMonth(d) == YMD(2024, 1, d)[3]
\* date.month
MonthOf(d) == YMD(2024, 1, d)[2]

VARIABLES
    items,        \* InventoryItem table: the ids of the rows that exist
    sales,        \* Sale table: set of [id, outlet, item, date, quantity, total_price]
    forecasts,    \* SalesForecast table: set of [id, item, forecast_date, predicted_quantity]
    next_id,      \* the next primary key of the SalesForecast table
    call,         \* per client: its SalesForecastService call and the call's locals
    stock,        \* InventoryItem rows by id: [quantity, is_out_of_stock, opening]
    txns,         \* StockTransaction table: set of [id, item, transaction_type, quantity]
    purchases,    \* Purchase table: set of [id, item, quantity]
    next_pk,      \* the next primary keys of Sale, Purchase, StockTransaction; requests made
    req,          \* per client: its sale / purchase / stock transaction request
    outlets       \* Outlet table: the ids of the rows that exist

vars == <<items, sales, forecasts, next_id, call, stock, txns, purchases, next_pk, req,
         outlets>>

\* ---------------------------------------------------------- History Loader

\* Sale.objects.filter(item_id=..., timestamp__date__gte=start, timestamp__date__lte=end)
SalesInWindow(item_id, start_date, end_date) ==
    {s \in sales : s.item = item_id /\ s.date >= start_date /\ s.date <= end_date}

\* .values('timestamp__date').annotate(Sum, Sum, Count): one row per date that has a sale
DailyRow(S, d) ==
    LET onDay == {s \in S : s.date = d}
    IN  [date |-> d,
         daily_quantity |-> SumOver(onDay, "quantity"),
         daily_revenue |-> SumOver(onDay, "total_price"),
         sales_count |-> Cardinality(onDay)]

\* the row reindex() makes for a date that is not in the index
FillRow(d) == [date |-> d, daily_quantity |-> 0, daily_revenue |-> 0, sales_count |-> 0]

\* pd.date_range(start=start_date, end=end_date, freq='D')
DateRange(start_date, end_date) ==
    Seq1([k \in 1..(end_date - start_date + 1) |-> start_date + k - 1])

\* the aggregate rows alone, as the query returns them: no reindex, no filling
Reindex_NoFill(S, date_range) ==
    LET with_sales == SelectSeq(date_range, LAMBDA d : \E s \in S : s.date = d)
    IN  Seq1([k \in DOMAIN with_sales |-> DailyRow(S, with_sales[k])])

\* df.reindex(date_range, fill_value=0): one row per date of date_range, in its order
Reindex(S, date_range) ==
    Seq1([k \in DOMAIN date_range |->
            IF \E s \in S : s.date = date_range[k]
            THEN DailyRow(S, date_range[k])
            ELSE FillRow(date_range[k])])

\* the None that prepare_historical_data returns, and a DataFrame
NoneDf == [none |-> TRUE, rows |-> <<>>]
Df(rows) == [none |-> FALSE, rows |-> rows]

\* prepare_historical_data without "if not sales_data: return None"
PrepareHistoricalData_NoSentinel(item_id, days_back) ==
    Df(Reindex(SalesInWindow(item_id, Today - days_back, Today),
               DateRange(Today - days_back, Today)))

\* prepare_historical_data(item_id, days_back)
PrepareHistoricalData(item_id, days_back) ==
    LET end_date == Today
        start_date == end_date - days_back
        sales_data == SalesInWindow(item_id, start_date, end_date)
    IN  IF sales_data = {} THEN NoneDf
        ELSE Df(Reindex(sales_data, DateRange(start_date, end_date)))

\* --------------------------------------------------------- Feature Builder

\* a mean kept exact, as sum / n
Mean(s) == [sum |-> SumSeq(s), n |-> Len(s)]
Zero == [sum |-> 0, n |-> 1]
SameMean(a, b) == a.sum * b.n = b.sum * a.n

Quantities(rows) == Seq1([k \in DOMAIN rows |-> rows[k].daily_quantity])

RECURSIVE CumSumFrom(_, _, _)
CumSumFrom(s, k, acc) ==
    IF k > Len(s) THEN <<>>
    ELSE <<acc + s[k]>> \o CumSumFrom(s, k + 1, acc + s[k])

\* the running totals of a column: element j is s[1] + ... + s[j]
CumSum(s) == CumSumFrom(s, 1, 0)

\* rolling(window=w, min_periods=1, center=True): the window also takes the rows
\* after row j
RollingMean_Centered(cum, j, w) ==
    LET first == Max(1, j - (w \div 2))
        last == IF j + (w \div 2) <= Len(cum) THEN j + (w \div 2) ELSE Len(cum)
    IN  [sum |-> cum[last] - (IF first = 1 THEN 0 ELSE cum[first - 1]),
         n |-> last - first + 1]

\* Series.rolling(window=w, min_periods=1).mean() at row j (1-based), from the
\* running totals cum of the series: the mean of rows max(1, j-w+1) .. j
RollingMean(cum, j, w) ==
    LET first == Max(1, j - w + 1)
    IN  [sum |-> cum[j] - (IF first = 1 THEN 0 ELSE cum[first - 1]),
         n |-> j - first + 1]

\* shift(k, fill_value=0): no NaN where the lag reaches before row 0
Shift_ZeroFill(qty, j, k) == IF j - k >= 1 THEN qty[j - k] ELSE 0

\* Series.shift(k) at row j (1-based)
Shift(qty, j, k) == IF j - k >= 1 THEN qty[j - k] ELSE NaN

\* create_features(df): the rows of df with the feature columns added
CreateFeatures(rows) ==
    LET qty == Quantities(rows)
        cum == CumSum(qty)
    IN  Seq1([j \in DOMAIN rows |->
            [date |-> rows[j].date,
             daily_quantity |-> rows[j].daily_quantity,
             daily_revenue |-> rows[j].daily_revenue,
             sales_count |-> rows[j].sales_count,
             day_of_week |-> Weekday(rows[j].date),
             day_of_month |-> DayOfMonth(rows[j].date),
             month |-> MonthOf(rows[j].date),
             is_weekend |-> IF Weekday(rows[j].date) >= 5 THEN 1 ELSE 0,
             qty_7day_avg |-> RollingMean(cum, j, 7),
             qty_14day_avg |-> RollingMean(cum, j, 14),
             qty_30day_avg |-> RollingMean(cum, j, 30),
             qty_lag_1 |-> Shift(qty, j, 1),
             qty_lag_7 |-> Shift(qty, j, 7),
             days_since_start |-> j - 1]])

HasNaN(r) == r.qty_lag_1 = NaN \/ r.qty_lag_7 = NaN

\* df.dropna()
DropNa(frows) == SelectSeq(frows, LAMBDA r : ~HasNaN(r))

\* --------------------------------------------------------------- Predictor

\* StandardScaler and LinearRegression are library objects.  Once fitted,
\* scaler.transform followed by model.predict is an affine function of the
\* feature row; a fitted pair is kept as the coefficients of that function
\* over the raw columns (the intercept in halves, so that predictions have a
\* fractional part) with a stamp of the fit: the item whose history it was
\* fitted on and the number of clean rows.  The least-squares solution is not
\* computed: the step that trains draws the coefficients from LinearFamily.
LinearFamily ==
    { [intercept2 |-> 0,    lag_1 |-> 1,  lag_7 |-> 0, avg_7 |-> 0, days |-> 0],
      [intercept2 |-> 3,    lag_1 |-> -1, lag_7 |-> 1, avg_7 |-> 0, days |-> 0],
      [intercept2 |-> -1,   lag_1 |-> 0,  lag_7 |-> 0, avg_7 |-> 3, days |-> 0],
      [intercept2 |-> -181, lag_1 |-> 0,  lag_7 |-> 0, avg_7 |-> 0, days |-> 1] }

NoCoef == [intercept2 |-> 0, lag_1 |-> 0, lag_7 |-> 0, avg_7 |-> 0, days |-> 0]

\* __init__: self.scaler = StandardScaler(); self.model = LinearRegression()
NewService ==
    [scaler |-> [fitted |-> FALSE, item |-> 0, n_samples |-> 0],
     model |-> [fitted |-> FALSE, item |-> 0, n_samples |-> 0, coef |-> NoCoef],
     fits |-> 0]

\* self.scaler.fit_transform(X); self.model.fit(X_scaled, y), up to the values
\* of the coefficients
Fit(service, item_id, X) ==
    [scaler |-> [fitted |-> TRUE, item |-> item_id, n_samples |-> Len(X)],
     model |-> [fitted |-> TRUE, item |-> item_id, n_samples |-> Len(X), coef |-> NoCoef],
     fits |-> service.fits + 1]

\* the outcome of train_model: (success, message), the service after it, and
\* the sizes it saw (rows of df, rows of df_clean; -1 where it did not get there)
TrainOutcome(success, message, service, n_rows, n_clean) ==
    [success |-> success, message |-> message, service |-> service,
     n_rows |-> n_rows, n_clean |-> n_clean]

\* train_model without its two size checks: it fits whatever the loader returns
TrainModel_NoMinimum(service, item_id, days_back) ==
    LET df == PrepareHistoricalData(item_id, days_back)
    IN  IF df.none
        THEN TrainOutcome(FALSE, "Insufficient historical data", service, -1, -1)
        ELSE LET df_clean == DropNa(CreateFeatures(df.rows))
             IN  TrainOutcome(TRUE, "Model trained successfully",
                              Fit(service, item_id, df_clean),
                              Len(df.rows), Len(df_clean))

\* train_model that reports success on insufficient data and leaves scaler and
\* model as they were
TrainModel_StaleOnFailure(service, item_id, days_back) ==
    LET df == PrepareHistoricalData(item_id, days_back)
    IN  IF df.none \/ Len(df.rows) < MinRawRows
        THEN TrainOutcome(TRUE, "Model trained successfully", service,
                          IF df.none THEN -1 ELSE Len(df.rows), -1)
        ELSE LET df_clean == DropNa(CreateFeatures(df.rows))
             IN  TrainOutcome(TRUE, "Model trained successfully",
                              Fit(service, item_id, df_clean),
                              Len(df.rows), Len(df_clean))

\* train_model without "self.scaler.fit_transform(X)" and "self.model.fit(...)"
TrainModel_NoFit(service, item_id, days_back) ==
    LET df == PrepareHistoricalData(item_id, days_back)
    IN  IF df.none \/ Len(df.rows) < MinRawRows
        THEN TrainOutcome(FALSE, "Insufficient historical data", service,
                          IF df.none THEN -1 ELSE Len(df.rows), -1)
        ELSE TrainOutcome(TRUE, "Model trained successfully", service,
                          Len(df.rows), Len(df.rows) - TailLen)

\* train_model(item_id, days_back)
TrainModel(service, item_id, days_back) ==
    LET df == PrepareHistoricalData(item_id, days_back)
    IN  IF df.none \/ Len(df.rows) < MinRawRows
        THEN TrainOutcome(FALSE, "Insufficient historical data", service,
                          IF df.none THEN -1 ELSE Len(df.rows), -1)
        ELSE LET df_clean == DropNa(CreateFeatures(df.rows))
             IN  IF Len(df_clean) < MinCleanRows
                 THEN TrainOutcome(FALSE, "Insufficient clean data after feature engineering",
                                   service, Len(df.rows), Len(df_clean))
                 ELSE TrainOutcome(TRUE, "Model trained successfully",
                                   Fit(service, item_id, df_clean),
                                   Len(df.rows), Len(df_clean))

\* the outcome of a train_model whose fit found the coefficients coef
Solved(out, coef) ==
    IF out.success THEN [out EXCEPT !.service.model.coef = coef] ELSE out

\* np.mean(last_values[-w:]) if len(last_values) >= w else 0
TailMean(last_values, w) ==
    IF Len(last_values) >= w THEN Mean(LastK(last_values, w)) ELSE Zero

\* last_values[-k] if len(last_values) >= k else 0
TailLag(last_values, k) ==
    IF Len(last_values) >= k THEN last_values[Len(last_values) - k + 1] ELSE 0

\* the features dict of loop iteration i (0-based) of predict_sales
LoopFeatures(len_df, last_values, i) ==
    LET pred_date == (Today + 1) + i
    IN  [date |-> pred_date,
         day_of_week |-> Weekday(pred_date),
         day_of_month |-> DayOfMonth(pred_date),
         month |-> MonthOf(pred_date),
         is_weekend |-> IF Weekday(pred_date) >= 5 THEN 1 ELSE 0,
         qty_7day_avg |-> TailMean(last_values, 7),
         qty_14day_avg |-> TailMean(last_values, 14),
         qty_30day_avg |-> TailMean(last_values, 30),
         qty_lag_1 |-> IF Len(last_values) > 0 THEN last_values[Len(last_values)] ELSE 0,
         qty_lag_7 |-> TailLag(last_values, 7),
         days_since_start |-> len_df + i + 1]

\* self.model.predict(self.scaler.transform(feature_array))[0], exact, as num / den
RawPrediction(model, f) ==
    LET c == model.coef
        n == f.qty_7day_avg.n
    IN  [num |-> c.intercept2 * n
                 + 2 * n * (c.lag_1 * f.qty_lag_1 + c.lag_7 * f.qty_lag_7
                            + c.days * f.days_since_start)
                 + 2 * c.avg_7 * f.qty_7day_avg.sum,
         den |-> 2 * n]

\* int(x) of a float: truncation toward zero
IntTrunc(r) == IF r.num >= 0 THEN r.num \div r.den ELSE -((-r.num) \div r.den)

\* max(0, int(self.model.predict(feature_scaled)[0]))
PredictedQty(model, f) == Max(0, IntTrunc(RawPrediction(model, f)))

\* df.tail(7)['daily_quantity'].values
SeedValues(rows) == LastK(Quantities(rows), TailLen)

\* the loop without its last line: the buffer is never extended
UpdateLastValues_Stale(last_values, predicted_qty) == last_values

\* last_values = np.append(last_values, predicted_qty)
UpdateLastValues(last_values, predicted_qty) == Append(last_values, predicted_qty)

\* ------------------------------------------------------- SalesForecast table

\* SalesForecast.objects.filter(item=item, forecast_date=date)
Matching(item_id, date) ==
    {r \in forecasts : r.item = item_id /\ r.forecast_date = date}

\* the rows of one item whose forecast_date lies in Today+1 .. Today+n
RowsInRange(item_id, n) ==
    {r \in forecasts : r.item = item_id /\ r.forecast_date >= Today + 1
                        /\ r.forecast_date <= Today + n}

\* at most one row per (item, forecast_date)
KeyedStore(F) ==
    \A r1, r2 \in F :
        (r1.item = r2.item /\ r1.forecast_date = r2.forecast_date) => r1.id = r2.id

\* ------------------------------------------------------------ call records

NonePreds == [none |-> TRUE, list |-> <<>>]
Preds(list) == [none |-> FALSE, list |-> list]
NoResult == [ok |-> FALSE, message |-> "", n_saved |-> 0]

\* what a client keeps of its previous call
NoPrev == [valid |-> FALSE, ok |-> FALSE, n_saved |-> 0, row_ids |-> {}, keyed |-> TRUE]

\* a client that has not made its request yet
Idle ==
    [op |-> "idle", pc |-> "idle",
     item_id |-> 0, forecast_days |-> 0, days_back |-> 0,
     service |-> NewService,
     df |-> NoneDf, len_df |-> 0,
     train |-> TrainOutcome(FALSE, "", NewService, -1, -1),
     predictions |-> NonePreds, last_values |-> <<>>, i |-> 0, trace |-> <<>>,
     k |-> 0, found |-> 0, n_saved |-> 0,
     result |-> NoResult,
     queue |-> {}, eligible |-> {}, results |-> <<>>,
     loads |-> 0, writes |-> {}, row_ids |-> {}, keyed |-> TRUE,
     round |-> 0, prev |-> NoPrev, pre |-> {},
     frame |-> <<>>, clean |-> <<>>, used |-> <<>>]

\* "return ok, message" of generate_forecast_for_item.  Inside
\* generate_forecasts_for_all_items the pair is appended to results and the
\* loop goes on with the next item.
Return(c, ok, message, n_saved, F) ==
    IF c.op = "batch"
    THEN [c EXCEPT !.results = Append(@, [item_id |-> c.item_id, success |-> ok,
                                          message |-> message]),
                   !.pc = "batch_next"]
    ELSE [c EXCEPT !.result = [ok |-> ok, message |-> message, n_saved |-> n_saved],
                   !.row_ids = {r.id : r \in {x \in F : x.item = c.item_id
                                                      /\ x.forecast_date >= Today + 1
                                                      /\ x.forecast_date <= Today + c.forecast_days}},
                   !.keyed = \A d \in (Today + 1)..(Today + c.forecast_days) :
                                Cardinality({x \in F : x.item = c.item_id
                                                       /\ x.forecast_date = d}) = 1,
                   !.pc = "returned"]

\* an exception leaves the call (and the batch loop around it)
Raise(c, exception) ==
    [c EXCEPT !.result = [ok |-> FALSE, message |-> exception, n_saved |-> c.n_saved],
              !.pc = "raised"]

\* ------------------------------------------------------------------ actions

\* the forecaster touches neither the stock columns nor the stock tables
StockUnchanged == UNCHANGED <<stock, txns, purchases, next_pk, req, outlets>>

DbUnchanged == UNCHANGED <<items, sales, forecasts, next_id>> /\ StockUnchanged

\* generate_ai_forecast: service = SalesForecastService();
\* service.generate_forecast_for_item(item_id, forecast_days)
StartForecast(w, item_id, forecast_days) ==
    /\ call[w].pc = "idle"
    /\ call' = [call EXCEPT ![w] = [Idle EXCEPT !.op = "item", !.pc = "get_item",
                                                !.round = 1, !.pre = forecasts,
                                                !.item_id = item_id,
                                                !.forecast_days = forecast_days,
                                                !.days_back = DefaultDaysBack]]
    /\ DbUnchanged

\* the lookup without its "except InventoryItem.DoesNotExist"
ItemExists_Always(item_id) == TRUE

\* InventoryItem.objects.get(id=item_id) finds a row
ItemExists(item_id) == item_id \in items

\* generate_forecast_for_item: the item lookup and its "Item not found" return
GetItem(w) ==
    LET c == call[w]
    IN  /\ c.pc = "get_item"
        /\ call' = [call EXCEPT ![w] =
                      IF ItemExists(c.item_id)
                      THEN [c EXCEPT !.pc = "prepare"]
                      ELSE Return(c, FALSE, "Item not found", 0, forecasts)]
        /\ DbUnchanged

\* predict_sales: df = self.prepare_historical_data(item_id); the None branch
\* returns (None, message), which generate_forecast_for_item turns into
\* (False, message)
Prepare(w) ==
    LET c == call[w]
        df == PrepareHistoricalData(c.item_id, DefaultDaysBack)
        c1 == [c EXCEPT !.df = df, !.loads = @ + 1]
    IN  /\ c.pc = "prepare"
        /\ call' = [call EXCEPT ![w] =
                      IF df.none
                      THEN Return(c1, FALSE, "No historical data available", 0, forecasts)
                      ELSE [c1 EXCEPT !.pc = "train"]]
        /\ DbUnchanged

\* predict_sales: success, message = self.train_model(item_id); on success
\* df = self.create_features(df), predictions = [], last_values = df.tail(7)
Train(w) ==
    LET c == call[w]
        trained == TrainModel(c.service, c.item_id, c.days_back)
    IN  /\ c.pc = "train"
        /\ \E coef \in LinearFamily :
             LET out == Solved(trained, coef)
                 c1 == [c EXCEPT !.train = out, !.service = out.service, !.loads = @ + 1]
             IN  call' = [call EXCEPT ![w] =
                            IF c.op = "train"
                            THEN [c1 EXCEPT !.result = [ok |-> out.success,
                                                        message |-> out.message,
                                                        n_saved |-> 0],
                                            !.pc = "returned"]
                            ELSE IF ~out.success
                            THEN Return(c1, FALSE, out.message, 0, forecasts)
                            ELSE [c1 EXCEPT !.len_df = Len(CreateFeatures(c.df.rows)),
                                            !.predictions = Preds(<<>>),
                                            !.last_values = SeedValues(c.df.rows),
                                            !.i = 0,
                                            !.pc = "loop"]]
        /\ DbUnchanged

\* one iteration of "for i in range(forecast_days)"
PredictStep(w) ==
    LET c == call[w]
        f == LoopFeatures(c.len_df, c.last_values, c.i)
        predicted_qty == PredictedQty(c.service.model, f)
    IN  /\ c.pc = "loop"
        /\ c.i < c.forecast_days
        /\ call' = [call EXCEPT ![w] =
                      IF ~(c.service.scaler.fitted /\ c.service.model.fitted)
                      THEN Raise(c, "NotFittedError")
                      ELSE [c EXCEPT !.predictions =
                                        Preds(Append(@.list,
                                                     [date |-> f.date,
                                                      predicted_quantity |-> predicted_qty])),
                                     !.trace = Append(@, f),
                                     !.used = Append(@, [scaler |-> c.service.scaler,
                                                         model |-> c.service.model]),
                                     !.last_values = UpdateLastValues(@, predicted_qty),
                                     !.i = @ + 1]]
        /\ DbUnchanged

\* the loop is over: predict_sales returns (predictions, message); with no
\* prediction to save generate_forecast_for_item returns at once
LoopExit(w) ==
    LET c == call[w]
    IN  /\ c.pc = "loop"
        /\ c.i >= c.forecast_days
        /\ call' = [call EXCEPT ![w] =
                      IF c.op = "predict"
                      THEN [c EXCEPT !.result = [ok |-> TRUE,
                                                 message |-> "Predictions generated successfully",
                                                 n_saved |-> 0],
                                     !.pc = "returned"]
                      ELSE IF c.predictions.list = <<>>
                      THEN Return(c, TRUE, "Generated forecasts", 0, forecasts)
                      ELSE [c EXCEPT !.k = 1, !.n_saved = 0, !.pc = "save_get"]]
        /\ DbUnchanged

\* update_or_create, first half: look the row up by (item, forecast_date)
SaveGet(w) ==
    LET c == call[w]
        pred == c.predictions.list[c.k]
        rows == Matching(c.item_id, pred.date)
    IN  /\ c.pc = "save_get"
        /\ call' = [call EXCEPT ![w] =
                      IF Cardinality(rows) > 1
                      THEN Raise(c, "MultipleObjectsReturned")
                      ELSE IF rows = {}
                      THEN [c EXCEPT !.found = 0, !.pc = "save_write"]
                      ELSE [c EXCEPT !.found = (CHOOSE r \in rows : TRUE).id,
                                     !.pc = "save_write"]]
        /\ DbUnchanged

\* the item's rows are deleted before the prediction is inserted
Written_ReplaceAll(F, found, id, item_id, pred) ==
    {r \in F : r.item # item_id}
        \cup {[id |-> id, item |-> item_id, forecast_date |-> pred.date,
                predicted_quantity |-> pred.predicted_quantity]}

\* create() in place of update_or_create(): every prediction becomes a new row
Written_AlwaysInsert(F, found, id, item_id, pred) ==
    F \cup {[id |-> id, item |-> item_id, forecast_date |-> pred.date,
             predicted_quantity |-> pred.predicted_quantity]}

\* the forecasts table after update_or_create wrote pred: a new row when the
\* lookup found none, else the found row with predicted_quantity replaced
Written(F, found, id, item_id, pred) ==
    IF found = 0
    THEN F \cup {[id |-> id, item |-> item_id, forecast_date |-> pred.date,
                  predicted_quantity |-> pred.predicted_quantity]}
    ELSE {IF r.id = found
          THEN [r EXCEPT !.predicted_quantity = pred.predicted_quantity]
          ELSE r : r \in F}

\* update_or_create, second half, then saved_forecasts.append(forecast); after
\* the last prediction "return True, Generated ...".  When the item row was
\* deleted meanwhile the write fails on the foreign key and the exception leaves
\* the call.
SaveWrite(w) ==
    LET c == call[w]
        pred == c.predictions.list[c.k]
        id == IF c.found = 0 THEN next_id ELSE c.found
        F == Written(forecasts, c.found, next_id, c.item_id, pred)
        c1 == [c EXCEPT !.writes = @ \cup {id}, !.n_saved = @ + 1, !.found = 0]
    IN  /\ c.pc = "save_write"
        /\ IF ~ItemExists(c.item_id)
           THEN /\ call' = [call EXCEPT ![w] = Raise(c, "IntegrityError")]
                /\ UNCHANGED <<forecasts, next_id>>
           ELSE /\ forecasts' = F
                /\ next_id' = IF c.found = 0 THEN next_id + 1 ELSE next_id
                /\ call' = [call EXCEPT ![w] =
                              IF c.k = Len(c.predictions.list)
                              THEN Return(c1, TRUE, "Generated forecasts", c1.n_saved, F)
                              ELSE [c1 EXCEPT !.k = @ + 1, !.pc = "save_get"]]
        /\ UNCHANGED <<items, sales>>
        /\ StockUnchanged

\* the client sends the same request again: a new service object, the same
\* item_id and forecast_days
Repeat(w) ==
    LET c == call[w]
    IN  /\ c.pc = "returned"
        /\ c.op = "item"
        /\ c.round <= MaxRepeats
        /\ call' = [call EXCEPT ![w] =
                      [Idle EXCEPT !.op = "item", !.pc = "get_item",
                                   !.item_id = c.item_id,
                                   !.forecast_days = c.forecast_days,
                                   !.days_back = DefaultDaysBack,
                                   !.round = c.round + 1, !.pre = forecasts,
                                   !.prev = [valid |-> TRUE, ok |-> c.result.ok,
                                             n_saved |-> c.result.n_saved,
                                             row_ids |-> c.row_ids,
                                             keyed |-> c.keyed]]]
        /\ DbUnchanged

\* generate_all_forecasts: service = SalesForecastService();
\* service.generate_forecasts_for_all_items(forecast_days, min_sales_threshold).
\* recent_sales: the items with at least min_sales_threshold sales in the
\* last 30 days
RecentSales(min_sales_threshold) ==
    {i \in {s.item : s \in {x \in sales : x.date >= Today - 30}} :
        Cardinality({s \in sales : s.item = i /\ s.date >= Today - 30})
            >= min_sales_threshold}

StartBatch(w, forecast_days, min_sales_threshold) ==
    /\ call[w].pc = "idle"
    /\ call' = [call EXCEPT ![w] =
                  [Idle EXCEPT !.op = "batch", !.pc = "batch_next", !.pre = forecasts,
                               !.forecast_days = forecast_days,
                               !.days_back = DefaultDaysBack,
                               !.queue = RecentSales(min_sales_threshold),
                               !.eligible = RecentSales(min_sales_threshold)]]
    /\ DbUnchanged

\* "for sale_data in recent_sales": the next item, in whatever order the
\* database returns the groups; after the last one "return results".  The same
\* service object serves every item.
BatchNext(w) ==
    LET c == call[w]
    IN  /\ c.pc = "batch_next"
        /\ IF c.queue = {}
           THEN call' = [call EXCEPT ![w] =
                           [c EXCEPT !.result = [ok |-> TRUE, message |-> "results",
                                                 n_saved |-> 0],
                                     !.pc = "returned"]]
           ELSE \E item_id \in c.queue :
                   call' = [call EXCEPT ![w] =
                              [c EXCEPT !.queue = @ \ {item_id},
                                        !.item_id = item_id,
                                        !.df = NoneDf, !.len_df = 0,
                                        !.predictions = NonePreds,
                                        !.last_values = <<>>, !.i = 0, !.trace = <<>>,
                                        !.used = <<>>,
                                        !.train = TrainOutcome(FALSE, "", NewService, -1, -1),
                                        !.k = 0, !.found = 0, !.n_saved = 0,
                                        !.pc = "get_item"]]
        /\ DbUnchanged

\* a direct call of predict_sales(item_id, forecast_days) on a new service
StartPredict(w, item_id, forecast_days) ==
    /\ call[w].pc = "idle"
    /\ call' = [call EXCEPT ![w] = [Idle EXCEPT !.op = "predict", !.pc = "prepare",
                                                !.item_id = item_id,
                                                !.forecast_days = forecast_days,
                                                !.days_back = DefaultDaysBack]]
    /\ DbUnchanged

\* a direct call of train_model(item_id, days_back) on a new service
StartTrain(w, item_id, days_back) ==
    /\ call[w].pc = "idle"
    /\ call' = [call EXCEPT ![w] = [Idle EXCEPT !.op = "train", !.pc = "train",
                                                !.item_id = item_id,
                                                !.days_back = days_back]]
    /\ DbUnchanged

\* a direct call of prepare_historical_data(item_id, days_back)
PrepareCall(w, item_id, days_back) ==
    /\ call[w].pc = "idle"
    /\ call' = [call EXCEPT ![w] =
                  [Idle EXCEPT !.op = "prepare", !.pc = "returned",
                               !.item_id = item_id, !.days_back = days_back,
                               !.df = PrepareHistoricalData(item_id, days_back),
                               !.loads = 1]]
    /\ DbUnchanged

\* a direct call of create_features(df) on the frame the loader returned for
\* (item_id, days_back), followed by the dropna() of train_model
CreateFeaturesCall(w, item_id, days_back) ==
    LET df == PrepareHistoricalData(item_id, days_back)
        frame == CreateFeatures(df.rows)
    IN  /\ call[w].pc = "idle"
        /\ ~df.none
        /\ call' = [call EXCEPT ![w] =
                      [Idle EXCEPT !.op = "features", !.pc = "returned",
                                   !.item_id = item_id, !.days_back = days_back,
                                   !.df = df, !.loads = 1,
                                   !.frame = frame, !.clean = DropNa(frame)]]
        /\ DbUnchanged

\* SalesForecastListCreateView, POST: a row with the posted fields is inserted
CreateForecast(item, forecast_date, predicted_quantity) ==
    /\ item \in items
    /\ next_id <= MaxPostId
    /\ forecasts' = forecasts \cup {[id |-> next_id, item |-> item,
                                     forecast_date |-> forecast_date,
                                     predicted_quantity |-> predicted_quantity]}
    /\ next_id' = next_id + 1
    /\ UNCHANGED <<items, sales, call>>
    /\ StockUnchanged

\* InventoryItemDetailView, DELETE: the item goes, and with it (on_delete=CASCADE)
\* its Sale, SalesForecast, StockTransaction and Purchase rows
DeleteItem(item) ==
    /\ item \in items
    /\ items' = items \ {item}
    /\ sales' = {s \in sales : s.item # item}
    /\ forecasts' = {r \in forecasts : r.item # item}
    /\ txns' = {t \in txns : t.item # item}
    /\ purchases' = {x \in purchases : x.item # item}
    /\ UNCHANGED <<next_id, call, stock, next_pk, req, outlets>>

\* ---------------------------------------------------------- initial states

\* a Sale row: total_price is what SaleCreateSerializer.validate accepts
SaleRow(id, item, date, quantity) ==
    [id |-> id, outlet |-> 1, item |-> item, date |-> date, quantity |-> quantity,
     total_price |-> SellingPrice(item) * quantity]

\* the Sale rows the initial databases draw from: item 1 sold today (twice),
\* on days of the last week and the day before it, on the first day of the
\* default window and on the day before the window; item 2 sold 2 days ago and
\* before the window
SalePool ==
    { SaleRow(1, 1, Today, 1), SaleRow(2, 1, Today, 2), SaleRow(3, 1, Today - 1, 2),
      SaleRow(4, 1, Today - 6, 3), SaleRow(5, 1, Today - 7, 1),
      SaleRow(6, 1, Today - DefaultDaysBack, 2),
      SaleRow(7, 1, Today - DefaultDaysBack - 1, 1),
      SaleRow(8, 2, Today - 2, 1), SaleRow(9, 2, Today - DefaultDaysBack - 1, 2),
      SaleRow(10, 1, Today - 2, 4), SaleRow(11, 1, Today - 5, 5),
      SaleRow(12, 1, Today - 3, 6), SaleRow(13, 1, Today - 4, 7) }

PoolRows(ids) == {s \in SalePool : s.id \in ids}

\* every Sale table of at most MaxSales rows of the pool
SmallHistories == {S \in SUBSET PoolRows(1..9) : Cardinality(S) <= MaxSales}

\* Sale tables with more rows: no sale at all; sales only before the window;
\* one sale on the window's first day; a sale on each of the last eight days;
\* a busy item 1 beside an item 2 with one recent sale
Histories ==
    { {}, PoolRows({7, 9}), PoolRows({6}), PoolRows({1, 8}),
      PoolRows({1, 3, 10, 12, 13, 11, 4, 5}),
      PoolRows({1, 2, 3, 4, 6, 7, 8, 9}) }

ForecastRow(id, item, forecast_date, predicted_quantity) ==
    [id |-> id, item |-> item, forecast_date |-> forecast_date,
     predicted_quantity |-> predicted_quantity]

\* the SalesForecast tables a run starts from: empty, or rows left by earlier
\* forecasts (one of them beyond every horizon of this run)
StoreChoices ==
    { {},
      {ForecastRow(1, 1, Today + 1, 7)},
      {ForecastRow(1, 1, Today + 1, 7), ForecastRow(2, 1, Today + MaxHorizon + 3, 7),
       ForecastRow(3, 2, Today + 1, 7)} }

Workers == 1..NumWorkers

\* an InventoryItem row's stock columns; opening keeps the quantity the run
\* started from
StockRow(quantity) ==
    [quantity |-> quantity, is_out_of_stock |-> FALSE, opening |-> quantity]

\* a client that has no sale, purchase or stock transaction request in flight
NoRequest ==
    [op |-> "idle", pc |-> "idle", outlet |-> 0, item |-> 0, transaction_type |-> "",
     quantity |-> 0, total_price |-> 0,
     instance |-> StockRow(0), db_before |-> 0, db_after |-> 0, db_flag |-> FALSE]

InitStockTables ==
    /\ txns = {}
    /\ purchases = {}
    /\ next_pk = [sale |-> Cardinality(SalePool) + 1, purchase |-> 1, txn |-> 1, requests |-> 0]
    /\ req = [w \in Workers |-> NoRequest]
    /\ outlets = Outlets

InitDb(SaleTables, ForecastTables) ==
    /\ items = Items
    /\ sales \in SaleTables
    /\ forecasts \in ForecastTables
    /\ next_id = Cardinality(forecasts) + 1
    /\ call = [w \in Workers |-> Idle]
    /\ stock = [i \in Items |-> StockRow(MaxStock)]
    /\ InitStockTables

Init == InitDb(Histories, StoreChoices)

\* ------------------------------------------------------------ stock requests

\* "item.quantity += quantity; item.is_out_of_stock = False" with the flag left
\* as it was
AfterIn_KeepFlag(instance, quantity) ==
    [instance EXCEPT !.quantity = @ + quantity]

\* perform_create of a purchase or a stock-in, on the item instance:
\* item.quantity += quantity; item.is_out_of_stock = False
AfterIn(instance, quantity) ==
    [instance EXCEPT !.quantity = @ + quantity, !.is_out_of_stock = FALSE]

\* perform_create of a sale or a stock-out, on the item instance:
\* item.quantity -= quantity; if item.quantity <= 0: is_out_of_stock = True,
\* quantity = 0
AfterOut(instance, quantity) ==
    IF instance.quantity - quantity <= 0
    THEN [instance EXCEPT !.quantity = 0, !.is_out_of_stock = TRUE]
    ELSE [instance EXCEPT !.quantity = @ - quantity]

\* a request may be made by a client that has none in flight
MayRequest(w) ==
    /\ req[w].pc # "create"
    /\ next_pk.requests < MaxRequests

\* the request is counted; no primary key is handed out yet
Counted == [next_pk EXCEPT !.requests = @ + 1]

\* POST to SaleListCreateView, up to the end of serializer.is_valid(): the
\* outlet field looks the Outlet row up, the item field loads the InventoryItem
\* instance, SaleCreateSerializer.validate checks the stock and the price on it
SaleRequest(w, outlet, item, quantity, total_price) ==
    LET instance == stock[item]
        r == [NoRequest EXCEPT !.op = "sale", !.outlet = outlet, !.item = item,
                               !.quantity = quantity, !.total_price = total_price,
                               !.instance = instance]
    IN  /\ MayRequest(w)
        /\ item \in items
        /\ req' = [req EXCEPT ![w] =
                     IF outlet \notin outlets
                        \/ instance.quantity < quantity
                        \/ total_price # SellingPrice(item) * quantity
                     THEN [r EXCEPT !.pc = "rejected"]
                     ELSE [r EXCEPT !.pc = "create"]]
        /\ next_pk' = Counted
        /\ UNCHANGED <<items, sales, forecasts, next_id, call, stock, txns, purchases, outlets>>

\* SaleListCreateView.perform_create, one transaction: the Sale row, the item
\* saved from the instance that validation loaded, the StockTransaction row;
\* when the Outlet row has gone since validation the insert of the Sale breaks
\* the foreign key, the IntegrityError leaves the atomic block and nothing is
\* written
PerformCreateSale(w) ==
    LET r == req[w]
        item == AfterOut(r.instance, r.quantity)
    IN  /\ r.pc = "create" /\ r.op = "sale"
        /\ IF r.outlet \in outlets
           THEN /\ sales' = sales \cup {[id |-> next_pk.sale, outlet |-> r.outlet,
                                          item |-> r.item, date |-> Today,
                                          quantity |-> r.quantity,
                                          total_price |-> r.total_price]}
                /\ stock' = [stock EXCEPT ![r.item] = item]
                /\ txns' = txns \cup {[id |-> next_pk.txn, item |-> r.item,
                                         transaction_type |-> "out",
                                         quantity |-> r.quantity]}
                /\ next_pk' = [next_pk EXCEPT !.sale = @ + 1, !.txn = @ + 1]
                /\ req' = [req EXCEPT ![w] =
                             [r EXCEPT !.pc = "done",
                                       !.db_before = stock[r.item].quantity,
                                       !.db_flag = stock[r.item].is_out_of_stock,
                                       !.db_after = item.quantity]]
           ELSE /\ req' = [req EXCEPT ![w] = [r EXCEPT !.pc = "raised"]]
                /\ UNCHANGED <<sales, stock, txns, next_pk>>
        /\ UNCHANGED <<items, forecasts, next_id, call, purchases, outlets>>

\* POST to PurchaseListCreateView, up to the end of serializer.is_valid():
\* PurchaseCreateSerializer has no validate; the item field loads the instance
PurchaseRequest(w, item, quantity) ==
    /\ MayRequest(w)
    /\ item \in items
    /\ req' = [req EXCEPT ![w] =
                 [NoRequest EXCEPT !.op = "purchase", !.pc = "create", !.item = item,
                                   !.quantity = quantity, !.instance = stock[item]]]
    /\ next_pk' = Counted
    /\ UNCHANGED <<items, sales, forecasts, next_id, call, stock, txns, purchases, outlets>>

\* PurchaseListCreateView.perform_create, one transaction
PerformCreatePurchase(w) ==
    LET r == req[w]
        item == AfterIn(r.instance, r.quantity)
    IN  /\ r.pc = "create" /\ r.op = "purchase"
        /\ purchases' = purchases \cup {[id |-> next_pk.purchase, item |-> r.item,
                                          quantity |-> r.quantity]}
        /\ stock' = [stock EXCEPT ![r.item] = item]
        /\ txns' = txns \cup {[id |-> next_pk.txn, item |-> r.item,
                                 transaction_type |-> "in", quantity |-> r.quantity]}
        /\ next_pk' = [next_pk EXCEPT !.purchase = @ + 1, !.txn = @ + 1]
        /\ req' = [req EXCEPT ![w] = [r EXCEPT !.pc = "done",
                                                !.db_before = stock[r.item].quantity,
                                                !.db_flag = stock[r.item].is_out_of_stock,
                                                !.db_after = item.quantity]]
        /\ UNCHANGED <<items, sales, forecasts, next_id, call, outlets>>

\* POST to StockTransactionListCreateView, up to the end of
\* serializer.is_valid(): StockTransactionSerializer has no validate
StockTransactionRequest(w, item, transaction_type, quantity) ==
    /\ MayRequest(w)
    /\ item \in items
    /\ req' = [req EXCEPT ![w] =
                 [NoRequest EXCEPT !.op = "stock", !.pc = "create", !.item = item,
                                   !.transaction_type = transaction_type,
                                   !.quantity = quantity, !.instance = stock[item]]]
    /\ next_pk' = Counted
    /\ UNCHANGED <<items, sales, forecasts, next_id, call, stock, txns, purchases, outlets>>

\* StockTransactionListCreateView.perform_create, one transaction: the
\* StockTransaction row, then the item saved from the loaded instance
PerformCreateStockTransaction(w) ==
    LET r == req[w]
        item == IF r.transaction_type = "in" THEN AfterIn(r.instance, r.quantity)
                ELSE AfterOut(r.instance, r.quantity)
    IN  /\ r.pc = "create" /\ r.op = "stock"
        /\ txns' = txns \cup {[id |-> next_pk.txn, item |-> r.item,
                                 transaction_type |-> r.transaction_type,
                                 quantity |-> r.quantity]}
        /\ stock' = [stock EXCEPT ![r.item] = item]
        /\ next_pk' = [next_pk EXCEPT !.txn = @ + 1]
        /\ req' = [req EXCEPT ![w] = [r EXCEPT !.pc = "done",
                                                !.db_before = stock[r.item].quantity,
                                                !.db_flag = stock[r.item].is_out_of_stock,
                                                !.db_after = item.quantity]]
        /\ UNCHANGED <<items, sales, forecasts, next_id, call, purchases, outlets>>

\* OutletDetailView, DELETE: the outlet goes, and with it (on_delete=CASCADE)
\* its Sale rows; StockTransaction has no outlet and no sale column and the
\* item rows are not touched
DeleteOutlet(outlet) ==
    /\ outlet \in outlets
    /\ outlets' = outlets \ {outlet}
    /\ sales' = {s \in sales : s.outlet # outlet}
    /\ UNCHANGED <<items, forecasts, next_id, call, stock, txns, purchases, next_pk, req>>

\* the databases the stock requests start from: no sale yet, every item with
\* a quantity of 0 .. MaxStock, out of stock exactly when the quantity is 0
InitStock ==
    /\ items = Items
    /\ sales = {}
    /\ forecasts = {}
    /\ next_id = 1
    /\ call = [w \in Workers |-> Idle]
    /\ stock \in [Items -> {[StockRow(q) EXCEPT !.is_out_of_stock = f] :
                              q \in 0..MaxStock, f \in BOOLEAN}]
    /\ \A i \in Items : stock[i].is_out_of_stock => stock[i].quantity = 0
    /\ InitStockTables

\* ---------------------------------------------------------- specifications

\* forecast_days of the single-item requests
Horizons == {-1, 0, 1, 2, MaxHorizon}

\* the steps of a running generate_forecast_for_item of client w
Step(w) ==
    \/ GetItem(w)
    \/ Prepare(w)
    \/ Train(w)
    \/ PredictStep(w)
    \/ LoopExit(w)
    \/ SaveGet(w)
    \/ SaveWrite(w)

\* one client: a single-item forecast request, then the same request again
Next ==
    \/ \E item_id \in ItemIds, n \in Horizons : StartForecast(1, item_id, n)
    \/ Step(1)
    \/ Repeat(1)

Spec == Init /\ [][Next]_vars

\* the History Loader alone: prepare_historical_data on every small Sale table
InitLoader == InitDb(SmallHistories, {{}})

Lookbacks == (0..MaxLookback) \cup {DefaultDaysBack, DefaultDaysBack + 1}

NextLoader ==
    \E item_id \in ItemIds, days_back \in Lookbacks : PrepareCall(1, item_id, days_back)

SpecLoader == InitLoader /\ [][NextLoader]_vars

\* the Feature Builder alone: create_features over loader frames of 1 to 91 rows
FeatureLookbacks == {0, 5, 6, 7, 8, 13, 14, 31, DefaultDaysBack}

NextFeatures ==
    \E item_id \in Items, days_back \in FeatureLookbacks :
        CreateFeaturesCall(1, item_id, days_back)

SpecFeatures == InitLoader /\ [][NextFeatures]_vars

\* train_model and predict_sales called directly, while items may be deleted
TrainLookbacks == {0, 6, 12, 13, 14, DefaultDaysBack}

NextTrain ==
    \/ \E item_id \in ItemIds, days_back \in TrainLookbacks : StartTrain(1, item_id, days_back)
    \/ \E item_id \in ItemIds, n \in {0, 2} : StartPredict(1, item_id, n)
    \/ Prepare(1)
    \/ Train(1)
    \/ PredictStep(1)
    \/ LoopExit(1)
    \/ \E item \in Items : DeleteItem(item)

SpecTrain == Init /\ [][NextTrain]_vars

\* the batch of one manager, while forecasts are posted to the create endpoint
NextBatch ==
    \/ \E n \in {1, 2}, min_sales_threshold \in {1, 2} : StartBatch(1, n, min_sales_threshold)
    \/ BatchNext(1)
    \/ Step(1)
    \/ \E item \in Items, d \in (Today + 1)..(Today + 2) : CreateForecast(item, d, 0)

SpecBatch == Init /\ [][NextBatch]_vars

\* the batch over two eligible items, while items may be deleted
InitBatchDelete == InitDb({PoolRows({1, 8})}, {{}})

NextBatchDelete ==
    \/ \E n \in {1, 2} : StartBatch(1, n, 1)
    \/ BatchNext(1)
    \/ Step(1)
    \/ \E item \in Items : DeleteItem(item)

SpecBatchDelete == InitBatchDelete /\ [][NextBatchDelete]_vars

\* a single-item forecast, while forecasts are posted to the create endpoint
InitCreate == InitDb({PoolRows({1, 8})}, StoreChoices)

NextCreate ==
    \/ \E n \in {1, 2} : StartForecast(1, 1, n)
    \/ Step(1)
    \/ \E item \in Items, d \in (Today + 1)..(Today + 2) : CreateForecast(item, d, 0)

SpecCreate == InitCreate /\ [][NextCreate]_vars

\* the quantities of the requests
Quantities0 == 0..MaxQty

\* one client: sales, purchases and stock transactions, one after the other
NextStock ==
    \/ \E item \in Items, quantity \in Quantities0, off \in {0, 1} :
          SaleRequest(1, 1, item, quantity, SellingPrice(item) * quantity + off)
    \/ PerformCreateSale(1)
    \/ \E item \in Items, quantity \in Quantities0 : PurchaseRequest(1, item, quantity)
    \/ PerformCreatePurchase(1)
    \/ \E item \in Items, transaction_type \in {"in", "out"}, quantity \in Quantities0 :
          StockTransactionRequest(1, item, transaction_type, quantity)
    \/ PerformCreateStockTransaction(1)

SpecStock == InitStock /\ [][NextStock]_vars

\* clients that sell (and restock) item 1 at the same time
NextSales ==
    \E w \in Workers :
        \/ \E quantity \in 1..MaxQty : SaleRequest(w, 1, 1, quantity, SellingPrice(1) * quantity)
        \/ PerformCreateSale(w)
        \/ \E quantity \in 1..MaxQty : PurchaseRequest(w, 1, quantity)
        \/ PerformCreatePurchase(w)

SpecSales == InitStock /\ [][NextSales]_vars

\* clients that sell and restock item 1 at either outlet while outlets are
\* closed (deleted)
NextLedger ==
    \/ \E w \in Workers :
          \/ \E outlet \in Outlets, quantity \in 1..MaxQty :
                SaleRequest(w, outlet, 1, quantity, SellingPrice(1) * quantity)
          \/ PerformCreateSale(w)
          \/ \E quantity \in 1..MaxQty : PurchaseRequest(w, 1, quantity)
          \/ PerformCreatePurchase(w)
    \/ \E outlet \in Outlets : DeleteOutlet(outlet)

SpecLedger == InitStock /\ [][NextLedger]_vars

\* clients that forecast the same item at the same time
NextConc ==
    \E w \in Workers :
        \/ \E n \in {1, 2} : StartForecast(w, 1, n)
        \/ Step(w)

SpecConc == Init /\ [][NextConc]_vars

\* ------------------------------------------------------------------ claims

\* the real quantity sold of an item on a day, read off the Sale table
SoldOn(item_id, d) ==
    SumOver({s \in sales : s.item = item_id /\ s.date = d}, "quantity")

\* a finished single-item forecast call
ReturnedItem(c) == c.op = "item" /\ c.pc = "returned"

\* C1: whenever generate_forecast_for_item succeeds for forecast_days = n it
\* has produced exactly n forecast points, dated Today+1 .. Today+n in this
\* order, each with a non-negative integer quantity.
C1_ForecastPoints ==
    \A w \in Workers :
        LET c == call[w]
            preds == c.predictions.list
        IN  (ReturnedItem(c) /\ c.result.ok) =>
               /\ Len(preds) = c.forecast_days
               /\ \A k \in 1..Len(preds) :
                     /\ preds[k].date = Today + k
                     /\ preds[k].predicted_quantity \in Nat

\* C1 restricted to the horizons n >= 0
C1_ForecastPointsFromZero ==
    \A w \in Workers :
        LET c == call[w]
            preds == c.predictions.list
        IN  (ReturnedItem(c) /\ c.result.ok /\ c.forecast_days >= 0) =>
               /\ Len(preds) = c.forecast_days
               /\ \A k \in 1..Len(preds) :
                     /\ preds[k].date = Today + k
                     /\ preds[k].predicted_quantity \in Nat

\* C2: when a successful generate_forecast_for_item is repeated with the same
\* item, forecast_days, sales history and day, the second call leaves the same
\* rows (by primary key) for the item's dates Today+1 .. Today+n as the first:
\* as many as before, one per date.
C2_Idempotent ==
    \A w \in Workers :
        LET c == call[w]
        IN  (ReturnedItem(c) /\ c.prev.valid /\ c.prev.ok /\ c.result.ok) =>
               /\ c.row_ids = c.prev.row_ids
               /\ Cardinality(c.row_ids) = Cardinality(c.prev.row_ids)
               /\ Cardinality(c.row_ids) = Max(0, c.forecast_days)
               /\ c.keyed /\ c.prev.keyed

\* a repeated call that overwrote two or more rows
C2_Witness ==
    \E w \in Workers :
        LET c == call[w]
        IN  /\ ReturnedItem(c) /\ c.prev.valid /\ c.prev.ok /\ c.result.ok
            /\ c.forecast_days >= 2
            /\ c.result.n_saved = c.forecast_days
            /\ c.writes = c.prev.row_ids

\* C3: for an existing item with no sale in the lookback window,
\* generate_forecast_for_item returns (False, "No historical data available"):
\* the loader returned None, nothing was raised or fitted, and no SalesForecast
\* row was created or changed.
C3_NoHistory ==
    \A w \in Workers :
        LET c == call[w]
        IN  (c.op = "item" /\ c.pc \notin {"idle", "get_item", "prepare"}
             /\ c.item_id \in items
             /\ SalesInWindow(c.item_id, Today - DefaultDaysBack, Today) = {}) =>
               /\ c.pc = "returned"
               /\ ~c.result.ok
               /\ c.result.message = "No historical data available"
               /\ c.df.none
               /\ c.service.fits = 0
               /\ c.writes = {}
               /\ forecasts = c.pre

\* an item whose only sales lie before the window, refused
C3_Witness ==
    \E w \in Workers :
        LET c == call[w]
        IN  /\ ReturnedItem(c)
            /\ c.item_id \in items
            /\ \E s \in sales : s.item = c.item_id
            /\ SalesInWindow(c.item_id, Today - DefaultDaysBack, Today) = {}
            /\ ~c.result.ok
            /\ c.forecast_days > 0

\* C5: generate_forecast_for_item with forecast_days <= 0 returns ok = false
\* and writes no SalesForecast row.
C5_InvalidHorizonRejected ==
    \A w \in Workers :
        LET c == call[w]
        IN  (ReturnedItem(c) /\ c.forecast_days <= 0) =>
               (~c.result.ok /\ c.writes = {})

\* C6: for an item_id that names no InventoryItem, generate_forecast_for_item
\* returns (False, "Item not found"); it raises nothing, loads no history, fits
\* nothing and writes no SalesForecast row.
C6_ItemNotFound ==
    \A w \in Workers :
        LET c == call[w]
        IN  (c.op = "item" /\ c.pc # "get_item" /\ c.item_id \notin items) =>
               /\ c.pc = "returned"
               /\ ~c.result.ok
               /\ c.result.message = "Item not found"
               /\ c.loads = 0
               /\ c.service.fits = 0
               /\ c.writes = {}
               /\ forecasts = c.pre

\* a call for the missing item 3 with a positive horizon has returned
C6_Witness ==
    \E w \in Workers :
        LET c == call[w]
        IN  /\ ReturnedItem(c)
            /\ c.item_id \notin items
            /\ c.forecast_days > 0
            /\ ~c.result.ok

\* C10: in the forecast loop the lag-1 feature of step k is the clamped
\* prediction of step k-1 (the real quantity of Today at step 1) and the lag-7
\* feature is the clamped prediction of step k-7 (for k <= 7 the real quantity
\* of the day 7 days before the forecast date).
C10_RecursiveFeedback ==
    \A w \in Workers :
        LET c == call[w]
            preds == c.predictions.list
        IN  (c.op = "item" /\ ~c.predictions.none) =>
               /\ Len(c.trace) = Len(preds)
               /\ \A k \in 1..Len(c.trace) :
                     /\ c.trace[k].qty_lag_1 =
                           IF k >= 2 THEN preds[k - 1].predicted_quantity
                           ELSE SoldOn(c.item_id, Today)
                     /\ c.trace[k].qty_lag_7 =
                           IF k >= 8 THEN preds[k - 7].predicted_quantity
                           ELSE SoldOn(c.item_id, (Today + k) - 7)

\* a forecast of more than 7 steps whose first and second predictions differ
\* from each other and from the real quantities they replace as lags
C10_Witness ==
    \E w \in Workers :
        LET c == call[w]
            preds == c.predictions.list
        IN  /\ c.op = "item" /\ Len(c.trace) >= 9
            /\ preds[1].predicted_quantity # preds[2].predicted_quantity
            /\ preds[1].predicted_quantity # SoldOn(c.item_id, Today)
            /\ preds[2].predicted_quantity # SoldOn(c.item_id, Today - 6)
            /\ SoldOn(c.item_id, Today) # SoldOn(c.item_id, Today - 6)
            /\ c.trace[9].qty_lag_7 = preds[2].predicted_quantity

\* C4: generate_forecasts_for_all_items never raises, and when it returns it
\* holds exactly one result entry for each eligible item.
C4_BatchIsolation ==
    \A w \in Workers :
        LET c == call[w]
        IN  c.op = "batch" =>
               /\ c.pc # "raised"
               /\ c.pc = "returned" =>
                     /\ Len(c.results) = Cardinality(c.eligible)
                     /\ \A i \in c.eligible :
                           Cardinality({k \in 1..Len(c.results) : c.results[k].item_id = i}) = 1

\* C7: when the item has a sale in the window, prepare_historical_data returns
\* days_back + 1 rows, row k for the day Today - days_back + k - 1; a day with
\* sales carries their summed quantity, summed price and count, a day without
\* carries quantity 0, revenue 0 and count 0.
C7_LoaderRows ==
    \A w \in Workers :
        LET c == call[w]
            start_date == Today - c.days_back
            rows == c.df.rows
        IN  (c.op = "prepare" /\ c.pc = "returned"
             /\ \E s \in sales : s.item = c.item_id /\ s.date >= start_date /\ s.date <= Today) =>
               /\ ~c.df.none
               /\ Len(rows) = c.days_back + 1
               /\ \A k \in 1..Len(rows) :
                     LET on_day == {s \in sales : s.item = c.item_id
                                                  /\ s.date = start_date + k - 1}
                     IN  /\ rows[k].date = start_date + k - 1
                         /\ rows[k].daily_quantity = SumOver(on_day, "quantity")
                         /\ rows[k].daily_revenue = SumOver(on_day, "total_price")
                         /\ rows[k].sales_count = Cardinality(on_day)
                         /\ on_day = {} => /\ rows[k].daily_quantity = 0
                                           /\ rows[k].daily_revenue = 0
                                           /\ rows[k].sales_count = 0

\* the default window over a sparse history: a day with two sales, a day with
\* none, and a sale before the window that is left out
C7_Witness ==
    \E w \in Workers :
        LET c == call[w]
            rows == c.df.rows
        IN  /\ c.op = "prepare" /\ c.pc = "returned" /\ ~c.df.none
            /\ c.days_back = DefaultDaysBack
            /\ Len(rows) = DefaultDaysBack + 1
            /\ rows[Len(rows)].sales_count = 2
            /\ rows[2].sales_count = 0
            /\ \E s \in sales : s.item = c.item_id /\ s.date < Today - c.days_back

\* C8: train_model fits (once) exactly when the daily series has at least 14
\* rows and at least 7 rows are left after dropna; otherwise it returns False
\* with an insufficient-data message and leaves scaler and model unfitted, and
\* predict_sales then returns None for the predictions.
C8_MinimumData ==
    \A w \in Workers :
        LET c == call[w]
            out == c.train
        IN  (c.op \in {"train", "predict"} /\ c.pc \in {"loop", "returned"} /\ c.loads > 0
             /\ ~(c.op = "predict" /\ c.df.none)) =>
               /\ out.success <=> (out.n_rows >= 14 /\ out.n_clean >= 7)
               /\ out.success <=> (c.service.scaler.fitted /\ c.service.model.fitted)
               /\ c.service.fits = (IF out.success THEN 1 ELSE 0)
               /\ ~out.success =>
                     /\ c.service = NewService
                     /\ out.message \in {"Insufficient historical data",
                                         "Insufficient clean data after feature engineering"}
                     /\ c.pc = "returned" /\ ~c.result.ok
                     /\ c.result.message = out.message
                     /\ c.predictions.none /\ c.trace = <<>>

\* predict_sales whose training failed after its own load had succeeded
C8_Witness ==
    \E w \in Workers :
        LET c == call[w]
        IN  /\ c.op = "predict" /\ c.pc = "returned"
            /\ ~c.df.none /\ c.loads = 2
            /\ ~c.train.success
            /\ c.predictions.none
            /\ c.forecast_days > 0

\* C9: the SalesForecast table holds at most one row per (item, forecast_date).
C9_KeyedStore == KeyedStore(forecasts)

\* the quantities of the predictions made before step k (1-based)
EarlierPredictions(preds, k) ==
    [m \in 1..(k - 1) |-> preds[m].predicted_quantity]

\* the real daily history of a call followed by its predictions before step k
FullBuffer(c, k) == Quantities(c.df.rows) \o EarlierPredictions(c.predictions.list, k)

\* C11: at every step k of the forecast loop the 7-, 14- and 30-day rolling
\* features are the means of the trailing 7, 14 and 30 quantities of the real
\* history followed by the earlier clamped predictions; at step 1 the 14- and
\* 30-day features are the means of the last 14 and 30 real history days.
C11_LoopRollingMeans ==
    \A w \in Workers :
        LET c == call[w]
        IN  (c.op = "item" /\ ~c.predictions.none) =>
               \A k \in 1..Len(c.trace) :
                  /\ SameMean(c.trace[k].qty_7day_avg, Mean(LastK(FullBuffer(c, k), 7)))
                  /\ SameMean(c.trace[k].qty_14day_avg, Mean(LastK(FullBuffer(c, k), 14)))
                  /\ SameMean(c.trace[k].qty_30day_avg, Mean(LastK(FullBuffer(c, k), 30)))

\* the 7-day feature alone does follow the running buffer
C11_SevenDayMean ==
    \A w \in Workers :
        LET c == call[w]
        IN  (c.op = "item" /\ ~c.predictions.none) =>
               \A k \in 1..Len(c.trace) :
                  SameMean(c.trace[k].qty_7day_avg, Mean(LastK(FullBuffer(c, k), 7)))

\* C12: the day index is 0-based and grows by 1 per calendar day over history
\* and forecast alike: history row j (0-based) has index j, and forecast step
\* k (1-based) has index len + k - 1, len being the number of history rows.
C12_DayIndex ==
    \A w \in Workers :
        LET c == call[w]
            frame == CreateFeatures(c.df.rows)
        IN  (c.op = "item" /\ ~c.predictions.none) =>
               /\ \A j \in 1..Len(frame) : frame[j].days_since_start = j - 1
               /\ \A k \in 1..Len(c.trace) :
                     c.trace[k].days_since_start = Len(frame) + k - 1

\* what the loop computes instead: the index of step k is len + k
C12_DayIndexAsCoded ==
    \A w \in Workers :
        LET c == call[w]
        IN  (c.op = "item" /\ ~c.predictions.none) =>
               \A k \in 1..Len(c.trace) :
                  c.trace[k].days_since_start = Len(c.df.rows) + k

\* C13: in the frame of create_features over n rows, lag_1 of row j is the
\* quantity of row j-1 and lag_7 the quantity of row j-7 (undefined where the
\* lag reaches before row 0); dropna leaves exactly rows 7..n-1 (0-based), in
\* order: max(0, n-7) rows.
C13_LagsAndCleanRows ==
    \A w \in Workers :
        LET c == call[w]
            n == Len(c.df.rows)
            qty == Quantities(c.df.rows)
        IN  (c.op = "features" /\ c.pc = "returned") =>
               /\ Len(c.frame) = n
               /\ \A j \in 1..n :
                     /\ c.frame[j].qty_lag_1 = (IF j >= 2 THEN qty[j - 1] ELSE NaN)
                     /\ c.frame[j].qty_lag_7 = (IF j >= 8 THEN qty[j - 7] ELSE NaN)
               /\ c.clean = SubSeq(c.frame, 8, n)
               /\ Len(c.clean) = Max(0, n - 7)

\* a frame of at least 14 rows whose first clean row has a non-zero lag_7 that
\* differs from its lag_1
C13_Witness ==
    \E w \in Workers :
        LET c == call[w]
        IN  /\ c.op = "features" /\ c.pc = "returned"
            /\ Len(c.frame) >= 14
            /\ Len(c.clean) = Len(c.frame) - 7
            /\ c.clean[1].qty_lag_7 > 0
            /\ c.clean[1].qty_lag_7 # c.clean[1].qty_lag_1

\* C14: in the frame of create_features the rolling mean of window w in
\* {7, 14, 30} at row j is the mean of the quantities of rows max(0, j-w+1)..j:
\* defined at every row, equal to the raw quantity at row 0, and made of no row
\* later than j.
C14_RollingMeans ==
    \A w \in Workers :
        LET c == call[w]
            qty == Quantities(c.df.rows)
        IN  (c.op = "features" /\ c.pc = "returned") =>
               /\ \A j \in 1..Len(c.frame) :
                     /\ SameMean(c.frame[j].qty_7day_avg,
                                 Mean(SubSeq(qty, Max(1, j - 6), j)))
                     /\ SameMean(c.frame[j].qty_14day_avg,
                                 Mean(SubSeq(qty, Max(1, j - 13), j)))
                     /\ SameMean(c.frame[j].qty_30day_avg,
                                 Mean(SubSeq(qty, Max(1, j - 29), j)))
                     /\ c.frame[j].qty_7day_avg.n >= 1
                     /\ c.frame[j].qty_14day_avg.n >= 1
                     /\ c.frame[j].qty_30day_avg.n >= 1
               /\ Len(c.frame) >= 1 =>
                     /\ SameMean(c.frame[1].qty_7day_avg, [sum |-> qty[1], n |-> 1])
                     /\ SameMean(c.frame[1].qty_14day_avg, [sum |-> qty[1], n |-> 1])
                     /\ SameMean(c.frame[1].qty_30day_avg, [sum |-> qty[1], n |-> 1])

\* a 91-row frame with a sale on its first day and later sales: the sale has
\* left the 30-day window of row 30 but is in the window of row 29, and the
\* row before the last has a sale after it
C14_Witness ==
    \E w \in Workers :
        LET c == call[w]
        IN  /\ c.op = "features" /\ c.pc = "returned"
            /\ Len(c.frame) = DefaultDaysBack + 1
            /\ c.frame[1].qty_7day_avg.sum > 0
            /\ c.frame[30].qty_30day_avg.sum > 0
            /\ c.frame[31].qty_30day_avg.sum = 0
            /\ c.frame[Len(c.frame)].daily_quantity > 0
            /\ c.frame[Len(c.frame) - 1].qty_7day_avg.sum = 0

\* C15: within one generate_forecast_for_item the scaler and the model are fit
\* exactly once, before the first prediction; every step of the loop uses the
\* scaler and model of that one fit, and no step of the loop changes them.
C15_PredictorStateMachine ==
    /\ [](\A w \in Workers :
            LET c == call[w]
            IN  (c.op = "item" /\ c.pc \notin {"idle", "raised"}) =>
                   /\ c.service.fits <= 1
                   /\ (c.service.fits = 0) =>
                         (c.predictions.none /\ c.used = <<>> /\ c.trace = <<>>)
                   /\ ~c.predictions.none =>
                         /\ c.service.fits = 1
                         /\ c.service.scaler.fitted /\ c.service.model.fitted
                         /\ c.service = c.train.service
                         /\ Len(c.used) = Len(c.predictions.list)
                         /\ \A k \in 1..Len(c.used) :
                               /\ c.used[k].scaler = c.train.service.scaler
                               /\ c.used[k].model = c.train.service.model)
    /\ [][\A w \in Workers :
            (call[w].op = "item" /\ ~call[w].predictions.none
             /\ call'[w].round = call[w].round) =>
                call'[w].service = call[w].service]_vars

\* a forecast of two or more steps has saved its rows: one fit, not the
\* all-zero model, used at both steps
C15_Witness ==
    \E w \in Workers :
        LET c == call[w]
        IN  /\ ReturnedItem(c) /\ c.result.ok
            /\ Len(c.used) >= 2
            /\ c.service.fits = 1
            /\ c.used[1].model.coef # NoCoef
            /\ c.used[2] = c.used[1]
            /\ c.predictions.list[1].predicted_quantity > 0

\* C16: in generate_forecasts_for_all_items every prediction for the item
\* being processed is made with a scaler and a model fit on that item during
\* its own processing; when training for the item fails no prediction is made
\* for it, whatever scaler and model an earlier item left in the service.
C16_NoCarriedModel ==
    \A w \in Workers :
        LET c == call[w]
        IN  c.op = "batch" =>
               /\ \A k \in 1..Len(c.used) :
                     /\ c.used[k].scaler.fitted /\ c.used[k].model.fitted
                     /\ c.used[k].scaler.item = c.item_id
                     /\ c.used[k].model.item = c.item_id
                     /\ c.used[k].model = c.train.service.model
                     /\ c.used[k].scaler = c.train.service.scaler
               /\ (~c.predictions.none \/ c.pc \in {"loop", "save_get", "save_write"}) =>
                     /\ c.train.success
                     /\ c.train.service.model.item = c.item_id
                     /\ Len(c.used) = Len(c.predictions.list)
               /\ (~c.train.success /\ c.train.message # "") =>
                     (c.predictions.none /\ c.used = <<>>)

\* the second item of a batch failed to train while the service still held the
\* fit of the first item; its entry is a failure and it got no prediction
C16_Witness ==
    \E w \in Workers :
        LET c == call[w]
        IN  /\ c.op = "batch" /\ c.pc = "batch_next"
            /\ Len(c.results) = 2
            /\ c.results[1].success /\ ~c.results[2].success
            /\ ~c.train.success /\ c.train.message = "Insufficient historical data"
            /\ c.service.model.fitted /\ c.service.model.item # c.item_id
            /\ c.predictions.none

\* the rows of F that are not rows of item_id dated Today+1 .. Today+n
OutsideRange(F, item_id, n) ==
    {r \in F : ~(r.item = item_id /\ r.forecast_date >= Today + 1
                                  /\ r.forecast_date <= Today + n)}

\* C17: a successful generate_forecast_for_item(X, n) creates or updates only
\* SalesForecast rows of X dated Today+1 .. Today+n: when it returns, every
\* other SalesForecast row is as it was when the call began, and no step of
\* the call changes the Sale or the InventoryItem table or a row outside the
\* range.
C17_Frame ==
    /\ [](\A w \in Workers :
            LET c == call[w]
            IN  (ReturnedItem(c) /\ c.result.ok) =>
                   OutsideRange(forecasts, c.item_id, c.forecast_days)
                       = OutsideRange(c.pre, c.item_id, c.forecast_days))
    /\ [][/\ items' = items
          /\ sales' = sales
          /\ \A r \in (forecasts' \ forecasts) \cup (forecasts \ forecasts') :
                \E w \in Workers :
                    /\ call[w].op = "item"
                    /\ r.item = call[w].item_id
                    /\ r.forecast_date >= Today + 1
                    /\ r.forecast_date <= Today + call[w].forecast_days]_vars

\* a successful 2-day forecast for item 1 replaced the quantity of an old row
\* in the range and left alone an old row of item 1 beyond the range and a row
\* of item 2
C17_Witness ==
    \E w \in Workers :
        LET c == call[w]
        IN  /\ ReturnedItem(c) /\ c.result.ok
            /\ c.item_id = 1 /\ c.forecast_days = 2
            /\ forecasts # c.pre
            /\ \E r \in c.pre : r.item = 1 /\ r.forecast_date > Today + 2 /\ r \in forecasts
            /\ \E r \in c.pre : r.item = 2 /\ r \in forecasts
            /\ \E r \in c.pre : r.item = 1 /\ r.forecast_date = Today + 1 /\ r \notin forecasts

\* C18: when a generate_forecast_for_item(X, n) call has ended, by returning
\* or by raising, it has either written all n predictions or changed no row:
\* it never ends after writing only a prefix of the horizon.
C18_AllOrNothing ==
    \A w \in Workers :
        LET c == call[w]
        IN  (c.op = "item" /\ c.pc \in {"returned", "raised"}) =>
               \/ c.writes = {} /\ c.n_saved = 0
               \/ /\ c.n_saved = c.forecast_days
                  /\ \A k \in 1..c.forecast_days :
                        \E r \in forecasts :
                            /\ r.id \in c.writes
                            /\ r.item = c.item_id
                            /\ r.forecast_date = Today + k
                            /\ r.predicted_quantity = c.predictions.list[k].predicted_quantity

\* the quantity that came in for an item: purchases and stock-ins
Received(item) ==
    SumOver({t \in txns : t.item = item /\ t.transaction_type = "in"}, "quantity")

\* C19: every accepted sale has quantity <= the item's stock at the moment its
\* decrement is applied and leaves the stock at exactly that stock minus the
\* quantity; the total quantity of the accepted sales of an item never exceeds
\* the stock that was available (opening stock plus what came in).
C19_NoOverselling ==
    /\ \A w \in Workers :
          LET r == req[w]
          IN  (r.op = "sale" /\ r.pc = "done") =>
                 /\ r.quantity <= r.db_before
                 /\ r.db_after = r.db_before - r.quantity
    /\ \A i \in Items :
          SumOver({s \in sales : s.item = i}, "quantity") <= stock[i].opening + Received(i)

\* C20: after any sequence of sale, purchase and stock transaction creations
\* every item's quantity is >= 0 and is_out_of_stock is true only while the
\* quantity is 0; a sale or stock-out that would bring the quantity to 0 or
\* below leaves it at exactly 0 with is_out_of_stock true, and a purchase or
\* stock-in leaves is_out_of_stock false.
C20_StockLevel ==
    /\ \A i \in Items :
          /\ stock[i].quantity >= 0
          /\ stock[i].is_out_of_stock => stock[i].quantity = 0
    /\ \A w \in Workers :
          LET r == req[w]
              out == r.op = "sale" \/ (r.op = "stock" /\ r.transaction_type = "out")
          IN  r.pc = "done" =>
                 /\ (out /\ r.db_before - r.quantity <= 0) =>
                       (stock[r.item].quantity = 0 /\ stock[r.item].is_out_of_stock)
                 /\ (out /\ r.db_before - r.quantity > 0) =>
                       stock[r.item].quantity = r.db_before - r.quantity
                 /\ ~out =>
                       /\ ~stock[r.item].is_out_of_stock
                       /\ stock[r.item].quantity = r.db_before + r.quantity

\* an item was emptied by a stock-out larger than its stock, and a purchase
\* then made it available again
C20_Witness ==
    \E w \in Workers :
        LET r == req[w]
        IN  /\ r.op = "purchase" /\ r.pc = "done"
            /\ r.db_before = 0 /\ r.db_flag
            /\ r.quantity > 0
            /\ stock[r.item].quantity = r.quantity
            /\ ~stock[r.item].is_out_of_stock
            /\ \E t \in txns : /\ t.item = r.item /\ t.transaction_type = "out"
                               /\ t.quantity > stock[r.item].opening
                               /\ stock[r.item].opening > 0

\* the rows of a table for an item and a quantity
LedgerCount(S, item, quantity) ==
    Cardinality({x \in S : x.item = item /\ x.quantity = quantity})

\* the StockTransaction rows of a type
OfType(transaction_type) == {t \in txns : t.transaction_type = transaction_type}

\* the stock columns of an item after the adjustments of its StockTransaction
\* rows from primary key id on, applied in the order the rows were committed
RECURSIVE Replay(_, _, _)
Replay(instance, item, id) ==
    IF id >= next_pk.txn THEN instance
    ELSE LET T == {t \in txns : t.id = id /\ t.item = item}
         IN  IF T = {} THEN Replay(instance, item, id + 1)
             ELSE LET t == CHOOSE x \in T : TRUE
                  IN  Replay(IF t.transaction_type = "in"
                             THEN AfterIn(instance, t.quantity)
                             ELSE AfterOut(instance, t.quantity),
                             item, id + 1)

\* the quantity an item has when every row of its ledger was applied to the
\* stock it started with
LedgerQuantity(item) ==
    Replay([stock[item] EXCEPT !.quantity = stock[item].opening], item, 1).quantity

\* C21, from Sale and Purchase to the ledger: no Sale exists without a
\* StockTransaction 'out', and no Purchase without a StockTransaction 'in', for
\* the same item and quantity.
C21_SaleHasTransaction ==
    \A i \in Items, q \in 0..MaxQty :
        /\ LedgerCount(sales, i, q) <= LedgerCount(OfType("out"), i, q)
        /\ LedgerCount(purchases, i, q) <= LedgerCount(OfType("in"), i, q)

\* C21, the reverse: no StockTransaction 'out' exists without a Sale, and no
\* StockTransaction 'in' without a Purchase, for the same item and quantity.
C21_TransactionHasSale ==
    \A i \in Items, q \in 0..MaxQty :
        /\ LedgerCount(OfType("out"), i, q) <= LedgerCount(sales, i, q)
        /\ LedgerCount(OfType("in"), i, q) <= LedgerCount(purchases, i, q)

\* C21, the stock adjustment: the quantity of every item is the quantity it
\* started with, adjusted by every row of its ledger.
C21_StockAdjusted ==
    \A i \in Items : stock[i].quantity = LedgerQuantity(i)

\* C21: stock ledger consistency. In every committed state each Sale has
\* exactly one StockTransaction of type 'out', and each Purchase exactly one of
\* type 'in', for the same item and quantity, written in the same transaction;
\* no Sale or Purchase exists without its StockTransaction and its stock
\* adjustment, and no StockTransaction and stock adjustment without its Sale or
\* Purchase.
C21_LedgerConsistency ==
    /\ \A i \in Items, q \in 0..MaxQty :
          /\ LedgerCount(sales, i, q) = LedgerCount(OfType("out"), i, q)
          /\ LedgerCount(purchases, i, q) = LedgerCount(OfType("in"), i, q)
    /\ \A i \in Items : stock[i].quantity = LedgerQuantity(i)

====
